---- MODULE Spec2Model ----
(***************************************************************************)
(* Transmit delays of a matrix array: txdelay3 of src/pymust/txdelay3.py.  *)
(*                                                                         *)
(* One call of txdelay3 on a caller-owned config object (param) is a run   *)
(* of the machine below: the call's frames are on `stack`, every action    *)
(* is one block of statements of the function, an exception unwinds the    *)
(* whole stack (the function has no try/except).                           *)
(*                                                                         *)
(* Numbers are fixed point.  Lengths are integers (tenths of the element   *)
(* pitch), sines and cosines are hundredths, angles are multiples of pi/4, *)
(* solid angles are multiples of pi.  A float is [nan, v]: v is its value, *)
(* nan says that it is IEEE not-a-number (0/0 in the line-focus law).      *)
(***************************************************************************)
EXTENDS Integers, Sequences, FiniteSets, TLC

VARIABLES param, stack, result, param0, hist

vars == <<param, stack, result, param0, hist>>

----------------------------------------------------------------------------
(* Bounds of the model *)

\* largest number of array elements
MaxN == 2

\* largest number of focus targets handed to the focus mode
MaxTargets == 3

----------------------------------------------------------------------------
(* Numbers *)

Abs(a) == IF a < 0 THEN 0 - a ELSE a

\* np.sign
Sign(a) == IF a > 0 THEN 1 ELSE IF a < 0 THEN 0 - 1 ELSE 0

\* np.pi/2 in angle units (pi/4)
HalfPi == 2

\* 2*np.pi in solid-angle units (pi)
TwoPi == 2

\* np.sin of an angle k*pi/4, in hundredths
Sin(k) == <<0, 71, 100, 71, 0, 0 - 71, 0 - 100, 0 - 71>>[(k % 8) + 1]

\* np.cos of an angle k*pi/4, in hundredths
Cos(k) == Sin(k + 2)

RECURSIVE SqrtSearch(_, _, _)
SqrtSearch(n, lo, hi) ==
    IF lo >= hi THEN lo
    ELSE LET mid == (lo + hi + 1) \div 2
         IN  IF mid * mid <= n THEN SqrtSearch(n, mid, hi)
                               ELSE SqrtSearch(n, lo, mid - 1)

\* np.sqrt, rounded down
Sqrt(n) == SqrtSearch(n, 0, 46340)

\* np.sqrt of a sum of squares of lengths, in hundredths of the length unit
Sqrt100(n) == Sqrt(10000 * n)

\* np.linalg.norm of a vector whose squares sum to n, in tenths of its unit
Norm10(n) == Sqrt(100 * n)

Num(v) == [nan |-> FALSE, v |-> v]

NaN == [nan |-> TRUE, v |-> 0]

\* a - b on floats
FSub(a, b) == IF a.nan \/ b.nan THEN NaN ELSE Num(a.v - b.v)

\* a * s on floats, s a sign
FMul(a, s) == IF a.nan THEN NaN ELSE Num(a.v * s)

\* -d/c on floats: the quotient in time units of 1/1540 of the length unit
NegOverC(d, c) == IF d.nan THEN NaN ELSE Num((0 - d.v * 1540) \div c)

RECURSIVE SeqMin(_)
SeqMin(s) ==
    IF Len(s) = 1 THEN s[1]
    ELSE LET m == SeqMin(Tail(s))
         IN  IF s[1] <= m THEN s[1] ELSE m

RECURSIVE SeqMax(_)
SeqMax(s) ==
    IF Len(s) = 1 THEN s[1]
    ELSE LET m == SeqMax(Tail(s))
         IN  IF s[1] >= m THEN s[1] ELSE m

\* np.min of one row of floats: NaN as soon as one entry is NaN
RowMin(row) ==
    IF \E i \in 1..Len(row) : row[i].nan THEN NaN
    ELSE Num(SeqMin([i \in 1..Len(row) |-> row[i].v]))

----------------------------------------------------------------------------
(* Python values handed to txdelay3 *)

\* the caller's config object, an instance of utils.Param
ParamRef == [t |-> "param", v |-> <<>>]

\* a Python or numpy scalar
Scalar(n) == [t |-> "num", v |-> <<n>>]

\* a one-dimensional numpy array
Vector(s) == [t |-> "vec", v |-> s]

\* isinstance(a, utils.Param)
IsParam(a) == a.t = "param"

\* np.isscalar of the sum of the values in as
IsScalarSum(as) == \A i \in 1..Len(as) : as[i].t = "num"

\* np.array(a).reshape((-1, 1), order="F"): the entries of a as a column
Column(a) == a.v

----------------------------------------------------------------------------
(* The config object *)

\* param.elements of an array whose element centers are the (x, y) pairs el
xeOf(el) == [i \in 1..Len(el) |-> el[i][1]]

yeOf(el) == [i \in 1..Len(el) |-> el[i][2]]

\* element center coordinates on offer
Coords == {0, 10}

Geometries == UNION {[1..n -> Coords \X Coords] : n \in 1..MaxN}

\* the value of param.TXdelay that an earlier use of the config left behind
StaleTXdelay == <<<<Num(7)>>>>

Params ==
    LET ok ==
          [hasElements : {TRUE}, rows : {2}, elements : Geometries,
           hasC : BOOLEAN, c : {0}, hasSize : BOOLEAN, width : {8},
           height : {8}, posOK : BOOLEAN, TXdelay : {StaleTXdelay}]
        bad ==
          [hasElements : BOOLEAN, rows : {3}, elements : {<<<<0, 0>>>>},
           hasC : BOOLEAN, c : {0}, hasSize : {TRUE}, width : {8},
           height : {8}, posOK : {TRUE}, TXdelay : {StaleTXdelay}]
    IN  {[p EXCEPT !.c = IF p.hasC THEN 1000 ELSE 0] : p \in ok \cup bad}

----------------------------------------------------------------------------
(* Calls on offer *)

TiltArgs == {Scalar(k) : k \in (0 - HalfPi)..HalfPi} \cup {Vector(<<0, 0>>)}

OmegaArgs == {Scalar(w) : w \in (0 - 1)..(TwoPi + 1)}

\* the k-th point of the b-th list of focus targets
TargetPoint(b, k) ==
    CASE b = 1 -> <<10, 0, 10>>
      [] b = 2 -> <<10 * (k % 2), 0, 20>>
      [] b = 3 -> <<0, 10 * (k % 2), 0 - 10>>
      [] b = 4 -> <<0, 0, IF k % 2 = 1 THEN 0 - 10 ELSE 10>>

TargetLists == 1..4

Coordinate(b, axis, n) == Vector([k \in 1..n |-> TargetPoint(b, k)[axis]])

FocusCalls ==
    {<<Coordinate(b, 1, n), Coordinate(b, 2, n), Coordinate(b, 3, n), ParamRef>> :
        b \in TargetLists, n \in 0..MaxTargets}
    \cup
    {<<Scalar(TargetPoint(b, 1)[1]), Scalar(TargetPoint(b, 1)[2]),
       Scalar(TargetPoint(b, 1)[3]), ParamRef>> : b \in TargetLists}
    \cup
    {<<Coordinate(1, 1, lx), Coordinate(1, 2, ly), Coordinate(1, 3, lz), ParamRef>> :
        lx \in 0..MaxTargets, ly \in 0..MaxTargets, lz \in 0..MaxTargets}

PlaneCalls == {<<ParamRef, tx, ty>> : tx \in TiltArgs, ty \in TiltArgs}

DivergingCalls ==
    {<<ParamRef, tx, ty, w>> : tx \in TiltArgs, ty \in TiltArgs, w \in OmegaArgs}

\* calls that match no mode
OtherCalls ==
    LET five == <<ParamRef, Scalar(0), Scalar(0), Scalar(1), Scalar(0)>>
    IN  {SubSeq(five, 1, n) : n \in {0, 1, 2, 5}}
        \cup {<<Scalar(0), Scalar(0), Scalar(0), Scalar(1)>>,
              <<Scalar(0), Scalar(0), Scalar(0)>>,
              <<Scalar(0), Scalar(0), ParamRef>>}

Calls == FocusCalls \cup PlaneCalls \cup DivergingCalls \cup OtherCalls

\* radial positions that the bounded search may return, inside (0, 2*pi)
RValues == {5, 60}

----------------------------------------------------------------------------
(* State *)

NoResult == [status |-> "none", error |-> "", delays |-> <<>>]

Frame(args) ==
    [pc |-> "dispatch", args |-> args, param |-> <<>>, option |-> "",
     r |-> 0, delays |-> <<>>]

Init ==
    /\ param \in Params
    /\ param0 = param
    /\ stack = <<>>
    /\ result = NoResult
    /\ hist = [args |-> <<>>, rootSearches |-> 0, focusCalls |-> 0, stores |-> 0]

\* the frame that is running
Top == stack[Len(stack)]

At(pc) == stack # <<>> /\ Top.pc = pc

\* the running frame goes on as f
Continue(f) == stack' = [stack EXCEPT ![Len(stack)] = f]

\* an exception leaves txdelay3: no frame catches it
Raise(error) ==
    /\ stack' = <<>>
    /\ result' = [status |-> "raised", error |-> error, delays |-> <<>>]

\* the caller calls txdelay3(*args)
Call ==
    /\ stack = <<>>
    /\ result.status = "none"
    /\ \E args \in Calls :
          /\ stack' = <<Frame(args)>>
          /\ hist' = [hist EXCEPT !.args = args]
    /\ UNCHANGED <<param, result, param0>>

\* what lines 154-169 bind: the local param (<<>> when unbound) and option
DispatchOf(args) ==
    IF Len(args) = 4 THEN
        IF IsParam(args[4]) THEN [param |-> <<args[4]>>, option |-> "Origo"]
        ELSE IF IsParam(args[1])
             THEN [param |-> <<args[1]>>, option |-> "Diverging Wave"]
             ELSE [param |-> <<>>, option |-> ""]
    ELSE IF Len(args) = 3 THEN [param |-> <<args[1]>>, option |-> "Plane Wave"]
    ELSE [param |-> <<>>, option |-> ""]

\* what line 171 does with the local param
DispatchError(local) ==
    IF local = <<>> THEN "UnboundLocalError"
    ELSE IF ~IsParam(local[1]) THEN "InvalidArguments"
    ELSE ""

Dispatch ==
    /\ At("dispatch")
    /\ LET d == DispatchOf(Top.args)
       IN  IF DispatchError(d.param) # ""
           THEN /\ Raise(DispatchError(d.param))
           ELSE /\ Continue([Top EXCEPT !.pc = "geometry", !.param = d.param,
                                       !.option = d.option])
                /\ UNCHANGED result
    /\ UNCHANGED <<param, param0, hist>>

\* what lines 174-175 assert of the config
GeometryError(p) ==
    IF ~p.hasElements THEN "MissingGeometry"
    ELSE IF p.rows # 2 THEN "MissingGeometry"
    ELSE ""

Geometry ==
    /\ At("geometry")
    /\ IF GeometryError(param) # ""
       THEN Raise(GeometryError(param))
       ELSE Continue([Top EXCEPT !.pc = "velocity"]) /\ UNCHANGED result
    /\ UNCHANGED <<param, param0, hist>>

\* the config with the default velocity and its output field reset
WithVelocityAndReset(p) ==
    IF p.hasC THEN [p EXCEPT !.TXdelay = <<>>]
    ELSE [p EXCEPT !.hasC = TRUE, !.c = 1540, !.TXdelay = <<>>]

\* the config with the default velocity, whether or not it has one
WithDefaultVelocity(p) == [p EXCEPT !.hasC = TRUE, !.c = 1540]

\* the config after lines 183-184
WithVelocity(p) == IF p.hasC THEN p ELSE [p EXCEPT !.hasC = TRUE, !.c = 1540]

Velocity ==
    /\ At("velocity")
    /\ param' = WithVelocity(param)
    /\ Continue([Top EXCEPT !.pc = "positions"])
    /\ UNCHANGED <<result, param0, hist>>

\* where line 192, 200 or 248 sends a call
LawOf(option) ==
    CASE option = "Plane Wave" -> "plane"
      [] option = "Diverging Wave" -> "diverging"
      [] option = "Origo" -> "origo"

Positions ==
    /\ At("positions")
    /\ IF ~param.posOK
       THEN Raise("CollaboratorError")
       ELSE Continue([Top EXCEPT !.pc = LawOf(Top.option)]) /\ UNCHANGED result
    /\ UNCHANGED <<param, param0, hist>>

----------------------------------------------------------------------------
(* Plane wave: lines 192-198 *)

\* the same bound, not strict
TiltInClosedRange(tiltx, tilty) == Abs(tiltx) <= HalfPi /\ Abs(tilty) <= HalfPi

\* line 197 (and 206): |TILTx| and |TILTy| < pi/2
TiltInRange(tiltx, tilty) == Abs(tiltx) < HalfPi /\ Abs(tilty) < HalfPi

\* the assertions of lines 196-197
PlaneError(tiltx, tilty) ==
    IF ~IsScalarSum(<<tiltx, tilty>>) THEN "InvalidTiltAngle"
    ELSE IF ~TiltInRange(tiltx.v[1], tilty.v[1]) THEN "InvalidTiltAngle"
    ELSE ""

\* the same law with the cosines of the tilts
PlaneDelaysCos(xe, ye, tiltx, tilty, c) ==
    <<[i \in 1..Len(xe) |->
         Num(((xe[i] * Cos(tilty) - ye[i] * Cos(tiltx)) * 1540) \div c)]>>

\* line 198: (xe*sin(tilty) - ye*sin(tiltx))/c, one row
PlaneDelays(xe, ye, tiltx, tilty, c) ==
    <<[i \in 1..Len(xe) |->
         Num(((xe[i] * Sin(tilty) - ye[i] * Sin(tiltx)) * 1540) \div c)]>>

Plane ==
    /\ At("plane")
    /\ LET tiltx == Top.args[2]
           tilty == Top.args[3]
       IN  IF PlaneError(tiltx, tilty) # ""
           THEN Raise(PlaneError(tiltx, tilty))
           ELSE /\ Continue([Top EXCEPT
                      !.pc = "normalize",
                      !.delays = PlaneDelays(xeOf(param.elements), yeOf(param.elements),
                                             tiltx.v[1], tilty.v[1], param.c)])
                /\ UNCHANGED result
    /\ UNCHANGED <<param, param0, hist>>

----------------------------------------------------------------------------
(* Focus on a point or on a line: lines 248-262 *)

\* lines 252-261: the assertion, and d left unbound by the else branch
OrigoError(x0, y0, z0) ==
    IF ~(Len(x0) = Len(y0) /\ Len(y0) = Len(z0)) THEN "MismatchedTargetLength"
    ELSE IF Len(x0) # 1 /\ Len(x0) # 2 THEN "UnboundLocalError"
    ELSE ""

\* line 254: the distances of the elements to the focus point, one row
PointDistances(xe, ye, x0, y0, z0) ==
    [i \in 1..Len(xe) |->
        Num(Sqrt100((xe[i] - x0) * (xe[i] - x0) + (ye[i] - y0) * (ye[i] - y0)
                    + z0 * z0))]

Cross(a, b) ==
    <<a[2] * b[3] - a[3] * b[2], a[3] * b[1] - a[1] * b[3], a[1] * b[2] - a[2] * b[1]>>

Diff(a, b) == <<a[1] - b[1], a[2] - b[2], a[3] - b[3]>>

SumSq(a) == a[1] * a[1] + a[2] * a[2] + a[3] * a[3]

\* lines 256-259: the distances of the elements to the line through x1 and x2;
\* 0/0 is NaN
LineDistances(xe, ye, x1, x2) ==
    [i \in 1..Len(xe) |->
        LET X == <<xe[i], ye[i], 0>>
            num == Norm10(SumSq(Cross(Diff(X, x1), Diff(X, x2))))
            den == Norm10(SumSq(Diff(x2, x1)))
        IN  IF den = 0 THEN NaN ELSE Num((num * 100) \div den)]

\* line 262: -d/c*np.sign(z0), d a row and z0 a column: one row per target
FocusDelays(d, c, z0) ==
    [k \in 1..Len(z0) |-> [i \in 1..Len(d) |-> FMul(NegOverC(d[i], c), Sign(z0[k]))]]

\* lines 253-262
OrigoDelays(xe, ye, x0, y0, z0, c) ==
    IF Len(x0) = 1
    THEN FocusDelays(PointDistances(xe, ye, x0[1], y0[1], z0[1]), c, z0)
    ELSE FocusDelays(LineDistances(xe, ye, <<x0[1], y0[1], z0[1]>>,
                                   <<x0[2], y0[2], z0[2]>>), c, z0)

Origo ==
    /\ At("origo")
    /\ LET x0 == Column(Top.args[1])
           y0 == Column(Top.args[2])
           z0 == Column(Top.args[3])
       IN  IF OrigoError(x0, y0, z0) # ""
           THEN Raise(OrigoError(x0, y0, z0))
           ELSE /\ Continue([Top EXCEPT
                      !.pc = "normalize",
                      !.delays = OrigoDelays(xeOf(param.elements), yeOf(param.elements),
                                             x0, y0, z0, param.c)])
                /\ UNCHANGED result
    /\ UNCHANGED <<param, param0, hist>>

----------------------------------------------------------------------------
(* Diverging wave: lines 200-245 *)

\* the same assertions with omega < 2*pi
DivergingErrorOpen(tiltx, tilty, omega) ==
    IF ~IsScalarSum(<<tiltx, tilty, omega>>) THEN "InvalidTiltAngle"
    ELSE IF ~TiltInRange(tiltx.v[1], tilty.v[1]) THEN "InvalidTiltAngle"
    ELSE IF ~(omega.v[1] < TwoPi) THEN "InvalidSolidAngle"
    ELSE IF ~(omega.v[1] >= 0) THEN "InvalidSolidAngle"
    ELSE ""

\* the assertions of lines 205-208
DivergingError(tiltx, tilty, omega) ==
    IF ~IsScalarSum(<<tiltx, tilty, omega>>) THEN "InvalidTiltAngle"
    ELSE IF ~TiltInRange(tiltx.v[1], tilty.v[1]) THEN "InvalidTiltAngle"
    ELSE IF ~(omega.v[1] <= TwoPi) THEN "InvalidSolidAngle"
    ELSE IF ~(omega.v[1] >= 0) THEN "InvalidSolidAngle"
    ELSE ""

Diverging ==
    /\ At("diverging")
    /\ LET e == DivergingError(Top.args[2], Top.args[3], Top.args[4])
       IN  IF e # "" THEN Raise(e)
           ELSE Continue([Top EXCEPT !.pc = "plaid"]) /\ UNCHANGED result
    /\ UNCHANGED <<param, param0, hist>>

RECURSIVE SortedSet(_)
\* np.unique: the distinct values, ascending
SortedSet(S) ==
    IF S = {} THEN <<>>
    ELSE LET m == CHOOSE x \in S : \A y \in S : x <= y
         IN  <<m>> \o SortedSet(S \ {m})

Unique(a) == SortedSet({a[i] : i \in 1..Len(a)})

RECURSIVE Insert(_, _)
Insert(x, s) ==
    IF s = <<>> THEN <<x>>
    ELSE IF x <= s[1] THEN <<x>> \o s
    ELSE <<s[1]>> \o Insert(x, Tail(s))

RECURSIVE Sort(_)
\* np.sort
Sort(a) == IF a = <<>> THEN <<>> ELSE Insert(a[1], Sort(Tail(a)))

\* xep.flatten() and yep.flatten() of [xep, yep] = np.meshgrid(uxe, uye)
MeshX(uxe, uye) ==
    [m \in 1..(Len(uxe) * Len(uye)) |-> uxe[((m - 1) % Len(uxe)) + 1]]

MeshY(uxe, uye) ==
    [m \in 1..(Len(uxe) * Len(uye)) |-> uye[((m - 1) \div Len(uxe)) + 1]]

\* np.all(a == b) for a of shape (M,) and b of shape (1,N): numpy broadcasts a
\* length of 1; shapes that do not broadcast are "shape"
AllEqual(a, b) ==
    IF Len(a) = Len(b) THEN
        IF \A i \in 1..Len(b) : a[i] = b[i] THEN "true" ELSE "false"
    ELSE IF Len(a) = 1 THEN
        IF \A i \in 1..Len(b) : a[1] = b[i] THEN "true" ELSE "false"
    ELSE IF Len(b) = 1 THEN
        IF \A i \in 1..Len(a) : a[i] = b[1] THEN "true" ELSE "false"
    ELSE "shape"

\* the same test on the unsorted element coordinates
PlaidTestUnsorted(xe, ye) ==
    LET uxe == Unique(xe)
        uye == Unique(ye)
    IN  <<AllEqual(Sort(MeshX(uxe, uye)), xe), AllEqual(Sort(MeshY(uxe, uye)), ye)>>

\* lines 211-214: the two comparisons of test
PlaidTest(xe, ye) ==
    LET uxe == Unique(xe)
        uye == Unique(ye)
    IN  <<AllEqual(Sort(MeshX(uxe, uye)), Sort(xe)),
          AllEqual(Sort(MeshY(uxe, uye)), Sort(ye))>>

\* lines 214-215: what the test and its assertion may do. Arrays whose shapes
\* do not broadcast compare as False under an older numpy, and == raises
\* ValueError under a newer one
PlaidErrors(xe, ye) ==
    LET t == PlaidTest(xe, ye)
    IN  IF t[1] = "shape" \/ t[2] = "shape" THEN {"NonPlaidGrid", "ValueError"}
        ELSE IF t[1] = "true" /\ t[2] = "true" THEN {""}
        ELSE {"NonPlaidGrid"}

PlaidGrid ==
    /\ At("plaid")
    /\ \E e \in PlaidErrors(xeOf(param.elements), yeOf(param.elements)) :
          IF e # "" THEN Raise(e)
          ELSE Continue([Top EXCEPT !.pc = "rootsearch"]) /\ UNCHANGED result
    /\ UNCHANGED <<param, param0, hist>>

\* lines 229-230 read param.width and param.height
ApertureError(p) == IF ~p.hasSize THEN "TypeError" ELSE ""

\* lines 217-237: the direction of the virtual source, the aperture, and the
\* bounded search of scipy for the radial position r
RootSearch ==
    /\ At("rootsearch")
    /\ IF ApertureError(param) # ""
       THEN /\ Raise(ApertureError(param))
            /\ UNCHANGED hist
       ELSE /\ \E r \in RValues : Continue([Top EXCEPT !.pc = "virtual", !.r = r])
            /\ hist' = [hist EXCEPT !.rootSearches = @ + 1]
            /\ UNCHANGED result
    /\ UNCHANGED <<param, param0>>

\* lines 219-221: the rotation of the point [0,0,-1], in hundredths
Direction(tiltx, tilty) ==
    <<(0 - Sin(tilty) * Cos(tiltx)) \div 100,
      Sin(tiltx),
      (0 - Cos(tilty) * Cos(tiltx)) \div 100>>

\* lines 225-226 and 241-244: az and el are the azimuth and the elevation of the
\* direction, so that (cos(el)cos(az), cos(el)sin(az), sin(el)) is the direction
VirtualSourceAt(r, tiltx, tilty) ==
    LET dir == Direction(tiltx, tilty)
    IN  <<(r * dir[1]) \div 100, (r * dir[2]) \div 100, (r * dir[3]) \div 100>>

\* the arguments of a nested call with the config first
NestedArgsParamFirst(s, p) == <<p, Scalar(s[1]), Scalar(s[2]), Scalar(s[3])>>

\* line 245: the arguments (x0, y0, z0, param) of the nested call
NestedArgs(s, p) == <<Scalar(s[1]), Scalar(s[2]), Scalar(s[3]), p>>

\* lines 241-245: delays = txdelay3(x0, y0, z0, param)
VirtualSource ==
    /\ At("virtual")
    /\ LET s == VirtualSourceAt(Top.r, Top.args[2].v[1], Top.args[3].v[1])
       IN  stack' = [stack EXCEPT ![Len(stack)].pc = "line245"]
                    \o <<Frame(NestedArgs(s, Top.param[1]))>>
    /\ hist' = [hist EXCEPT !.focusCalls = @ + 1]
    /\ UNCHANGED <<param, result, param0>>

----------------------------------------------------------------------------
(* Normalization, store and return: lines 264-267 *)

\* the delays as they are, without the shift by the minimum
NotNormalized(delays) == delays

\* line 264: delays - np.min(delays, -1).reshape((-1, 1))
Normalized(delays) ==
    [k \in 1..Len(delays) |->
        [i \in 1..Len(delays[k]) |-> FSub(delays[k][i], RowMin(delays[k]))]]

Normalize ==
    /\ At("normalize")
    /\ Continue([Top EXCEPT !.pc = "store", !.delays = Normalized(Top.delays)])
    /\ UNCHANGED <<param, result, param0, hist>>

\* the config as it is, the delays not written to it
NotStored(p, delays) == p

\* the config after line 266: param.TXdelay = delays
Stored(p, delays) == [p EXCEPT !.TXdelay = delays]

\* line 266
Store ==
    /\ At("store")
    /\ param' = Stored(param, Top.delays)
    /\ hist' = [hist EXCEPT !.stores = @ + 1]
    /\ Continue([Top EXCEPT !.pc = "return"])
    /\ UNCHANGED <<result, param0>>

\* line 267: to the caller, or to line 245 of the diverging-wave call
Return ==
    /\ At("return")
    /\ IF Len(stack) = 1
       THEN /\ stack' = <<>>
            /\ result' = [status |-> "returned", error |-> "", delays |-> Top.delays]
       ELSE /\ stack' = [SubSeq(stack, 1, Len(stack) - 1) EXCEPT
                            ![Len(stack) - 1].pc = "normalize",
                            ![Len(stack) - 1].delays = Top.delays]
            /\ UNCHANGED result
    /\ UNCHANGED <<param, param0, hist>>

----------------------------------------------------------------------------
(* Specification *)

\* calls of the diverging-wave mode with valid tilts and solid angle, for the
\* plaid-grid check on larger arrays
MaxGridN == 4

GridCoordsY == {0, 10, 20}

GridGeometries == UNION {[1..n -> Coords \X GridCoordsY] : n \in 1..MaxGridN}

GridParams ==
    [hasElements : {TRUE}, rows : {2}, elements : GridGeometries,
     hasC : {TRUE}, c : {1000}, hasSize : {TRUE}, width : {8},
     height : {8}, posOK : {TRUE}, TXdelay : {StaleTXdelay}]

GridCalls ==
    {<<ParamRef, Scalar(tx), Scalar(ty), Scalar(1)>> : tx \in {0, 1}, ty \in {0}}

InitGrid ==
    /\ param \in GridParams
    /\ param0 = param
    /\ stack = <<>>
    /\ result = NoResult
    /\ hist = [args |-> <<>>, rootSearches |-> 0, focusCalls |-> 0, stores |-> 0]

CallGrid ==
    /\ stack = <<>>
    /\ result.status = "none"
    /\ \E args \in GridCalls :
          /\ stack' = <<Frame(args)>>
          /\ hist' = [hist EXCEPT !.args = args]
    /\ UNCHANGED <<param, result, param0>>

NextGrid ==
    \/ CallGrid
    \/ Dispatch
    \/ Geometry
    \/ Velocity
    \/ Positions
    \/ Diverging
    \/ PlaidGrid
    \/ RootSearch
    \/ VirtualSource
    \/ Origo
    \/ Normalize
    \/ Store
    \/ Return

SpecGrid == InitGrid /\ [][NextGrid]_vars

Next ==
    \/ Call
    \/ Dispatch
    \/ Geometry
    \/ Velocity
    \/ Positions
    \/ Plane
    \/ Diverging
    \/ PlaidGrid
    \/ RootSearch
    \/ VirtualSource
    \/ Origo
    \/ Normalize
    \/ Store
    \/ Return

Spec == Init /\ [][Next]_vars

----------------------------------------------------------------------------
(* Properties *)

\* the call has ended
Finished == result.status # "none"

Returned == result.status = "returned"

Raised == result.status = "raised"

\* the mode that the arguments of the call select
CallMode == DispatchOf(hist.args).option

\* the entries of a matrix of delays
Entries(m) == {m[k][i] : k \in 1..Len(m), i \in 1..(IF m = <<>> THEN 0 ELSE Len(m[1]))}

NumValues(m) == IF m = <<>> THEN 0 ELSE Len(m) * Len(m[1])

\* every delay is a number >= 0 and the smallest is 0
MinIsZero(m) ==
    /\ \A e \in Entries(m) : ~e.nan /\ e.v >= 0
    /\ \E e \in Entries(m) : ~e.nan /\ e.v = 0

\* a line focus whose two target points are the same point
CoincidentLine(args) ==
    /\ DispatchOf(args).option = "Origo"
    /\ Len(Column(args[1])) = 2 /\ Len(Column(args[2])) = 2 /\ Len(Column(args[3])) = 2
    /\ \A a \in 1..3 : Column(args[a])[1] = Column(args[a])[2]

\* C1 as stated: of every call that returns, in any mode, the smallest delay is
\* exactly 0 and every delay is >= 0.
C1_MinZeroOfEveryReturn == Returned => MinIsZero(result.delays)

\* C1, amended: of every call that returns, in any mode, and that is not a line
\* focus on two coincident target points, the smallest delay is exactly 0 and
\* every delay is >= 0.
C1_MinZero == Returned /\ ~CoincidentLine(hist.args) => MinIsZero(result.delays)

\* a diverging-wave call returned delays that are not all equal
C1_Witness ==
    /\ Returned
    /\ CallMode = "Diverging Wave"
    /\ \E e \in Entries(result.delays) : ~e.nan /\ e.v > 0

\* the element centers are exactly the product of their x- and y-values
IsPlaid(el) ==
    LET X == {el[i][1] : i \in 1..Len(el)}
        Y == {el[i][2] : i \in 1..Len(el)}
    IN  /\ {el[i] : i \in 1..Len(el)} = X \X Y
        /\ Len(el) = Cardinality(X) * Cardinality(Y)

\* C2: a diverging-wave call on element centers that are not a plaid grid does
\* not get past the plaid-grid check: it fails there and returns no delays.
C2_NonPlaidRejected ==
    CallMode = "Diverging Wave" /\ ~IsPlaid(param.elements)
        => ~At("rootsearch") /\ ~Returned

\* C3: a diverging-wave call on a plaid grid is never rejected by the plaid-grid
\* check, in whatever order the elements are listed.
C3_PlaidAccepted ==
    Finished /\ CallMode = "Diverging Wave" /\ IsPlaid(param.elements)
        => result.error \notin {"NonPlaidGrid", "ValueError"}

\* a diverging-wave call returned on a 2 x 2 grid listed in an order that is
\* sorted neither by x nor by y
C3_Witness ==
    /\ Returned
    /\ CallMode = "Diverging Wave"
    /\ IsPlaid(param.elements)
    /\ Len(param.elements) = 4
    /\ Cardinality({param.elements[i][1] : i \in 1..4}) = 2
    /\ xeOf(param.elements) # Sort(xeOf(param.elements))
    /\ yeOf(param.elements) # Sort(yeOf(param.elements))

\* C4: every call that returns, in any mode, returns as many delays as the
\* array has elements.
C4_OneDelayPerElement ==
    Returned => NumValues(result.delays) = Len(param.elements)

\* the arguments match no mode
NoMode(args) ==
    \/ Len(args) \notin {3, 4}
    \/ Len(args) = 4 /\ ~IsParam(args[4]) /\ ~IsParam(args[1])

\* C5: a call whose arguments match no mode fails with InvalidArguments.
C5_InvalidArguments ==
    Finished /\ NoMode(hist.args) => Raised /\ result.error = "InvalidArguments"

\* the call is of mode m and line 171 let it pass
InMode(m) == CallMode = m /\ DispatchError(DispatchOf(hist.args).param) = ""

\* the config of the call passes the validation that all modes share
ReachesLaw == param0.hasElements /\ param0.rows = 2 /\ param0.posOK

\* the targets of a focus call are not 1 or 2 points
BadTargets(args) ==
    LET nx == Len(Column(args[1]))
        ny == Len(Column(args[2]))
        nz == Len(Column(args[3]))
    IN  nx # ny \/ ny # nz \/ nx \notin {1, 2}

\* C6: a focus call whose targets x0, y0, z0 differ in length, or are neither 1
\* nor 2 points, fails with MismatchedTargetLength.
C6_MismatchedTargetLength ==
    Finished /\ InMode("Origo") /\ ReachesLaw /\ BadTargets(hist.args)
        => Raised /\ result.error = "MismatchedTargetLength"

\* a tilt is not a scalar, or is pi/2 or more in absolute value
BadTilt(args) ==
    \E a \in {2, 3} : args[a].t # "num" \/ Abs(args[a].v[1]) >= HalfPi

C8_InvalidSolidAngle ==
    InMode("Diverging Wave") =>
        LET omega == hist.args[4].v[1]
        IN  /\ omega < 0 \/ omega > TwoPi =>
                 /\ hist.rootSearches = 0 /\ hist.focusCalls = 0 /\ ~Returned
                 /\ Finished /\ ReachesLaw /\ ~BadTilt(hist.args)
                       => result.error = "InvalidSolidAngle"
            /\ omega = 0 \/ omega = TwoPi => result.error # "InvalidSolidAngle"

\* a diverging-wave call with omega just above 2*pi failed with InvalidSolidAngle
C8_Witness ==
    /\ Raised
    /\ result.error = "InvalidSolidAngle"
    /\ InMode("Diverging Wave")
    /\ hist.args[4] = Scalar(TwoPi + 1)

\* C9: a call that fails returns no delays and leaves param.TXdelay as it was
\* before the call.
C9_NoPartialResult ==
    Raised => result.delays = <<>> /\ param.TXdelay = param0.TXdelay

\* a diverging-wave call failed after all its validations, at the aperture
C9_Witness ==
    /\ Raised
    /\ result.error = "TypeError"
    /\ InMode("Diverging Wave")

\* the fields of the config other than TXdelay
Config(p) == [p EXCEPT !.TXdelay = <<>>]

\* C10 as stated: a call changes nothing of the config but TXdelay.
C10_OnlyTXdelay == Config(param) = Config(param0)

\* C10, amended: a call changes nothing of the config but TXdelay and, when
\* the config has no velocity, c, which it sets to the default 1540; the
\* element geometry and a supplied velocity stay as they were.
C10_OnlyTXdelayAndDefaultC ==
    /\ [Config(param) EXCEPT !.hasC = TRUE, !.c = 0]
          = [Config(param0) EXCEPT !.hasC = TRUE, !.c = 0]
    /\ param0.hasC => param.hasC /\ param.c = param0.c
    /\ ~param0.hasC =>
          \/ ~param.hasC /\ param.c = param0.c
          \/ param.hasC /\ param.c = 1540

\* a call on a config without velocity failed and left c = 1540 in the config
C10_Witness ==
    /\ Raised
    /\ ~param0.hasC
    /\ param.hasC
    /\ param.c = 1540
    /\ param.TXdelay = param0.TXdelay

\* C11: after every call that returns, in any mode, param.TXdelay is the delays
\* that the call returned.
C11_TXdelayIsResult == Returned => param.TXdelay = result.delays

\* a diverging-wave call returned: the nested focus call stored its delays, and
\* then the diverging-wave call stored its own
C11_Witness ==
    /\ Returned
    /\ CallMode = "Diverging Wave"
    /\ hist.stores = 2
    /\ param.TXdelay = result.delays
    /\ param.TXdelay # param0.TXdelay

\* every delay of the matrix is the number 0
AllZero(m) == m # <<>> /\ \A e \in Entries(m) : ~e.nan /\ e.v = 0

\* a plane-wave call with tiltx = tilty = 0
ZeroTiltPlane ==
    /\ InMode("Plane Wave")
    /\ hist.args[2] = Scalar(0)
    /\ hist.args[3] = Scalar(0)

\* C12: in a plane-wave call with tiltx = tilty = 0, whatever the element
\* geometry and the velocity, every delay is 0 once line 198 has computed it,
\* before the normalization and after it, and so in what the call returns.
C12_ZeroTiltZeroDelays ==
    ZeroTiltPlane =>
        /\ stack # <<>> /\ Top.pc \in {"normalize", "store", "return"}
              => AllZero(Top.delays)
        /\ Returned => AllZero(result.delays)

\* a plane-wave call with zero tilts returned zeros for two elements that
\* differ in x and in y, with the default velocity
C12_Witness ==
    /\ ZeroTiltPlane
    /\ Returned
    /\ AllZero(result.delays)
    /\ Len(param.elements) = 2
    /\ param.elements[1][1] # param.elements[2][1]
    /\ param.elements[1][2] # param.elements[2][2]
    /\ ~param0.hasC

\* how far a frame has come
Pos(pc) ==
    CASE pc = "dispatch" -> 1
      [] pc = "geometry" -> 2
      [] pc = "velocity" -> 3
      [] pc = "positions" -> 4
      [] pc \in {"plane", "diverging", "origo"} -> 5
      [] pc = "plaid" -> 6
      [] pc = "rootsearch" -> 7
      [] pc = "virtual" -> 8
      [] pc = "line245" -> 9
      [] pc = "normalize" -> 10
      [] pc = "store" -> 11
      [] pc = "return" -> 12

\* how far the call has come: it grows with every step and ends at 10000
Progress ==
    IF stack = <<>> THEN (IF Finished THEN 10000 ELSE 0)
    ELSE 100 * Pos(stack[1].pc) + (IF Len(stack) = 2 THEN Pos(stack[2].pc) ELSE 0)

\* the diverging-wave call has passed line 245
PastLine245 ==
    \/ Len(stack) = 2
    \/ Len(stack) = 1 /\ Top.option = "Diverging Wave"
          /\ Top.pc \in {"normalize", "store", "return"}
    \/ Returned /\ CallMode = "Diverging Wave"

\* a step is possible: the focus law and the plaid-grid check act whenever a
\* frame is at them, every other action is enabled
CanStep ==
    \/ At("origo")
    \/ At("plaid") /\ PlaidErrors(xeOf(param.elements), yeOf(param.elements)) # {}
    \/ ENABLED (Call \/ Dispatch \/ Geometry \/ Velocity \/ Positions \/ Plane
                \/ Diverging \/ RootSearch \/ VirtualSource \/ Normalize \/ Store
                \/ Return)

CallStructure ==
    /\ Len(stack) <= 2
    /\ hist.focusCalls <= 1
    /\ hist.focusCalls = 1 =>
          /\ InMode("Diverging Wave")
          /\ ReachesLaw
          /\ DivergingError(hist.args[2], hist.args[3], hist.args[4]) = ""
          /\ "" \in PlaidErrors(xeOf(param.elements), yeOf(param.elements))
          /\ param.hasSize
          /\ hist.rootSearches = 1
    /\ ~Raised => (hist.focusCalls = 1 <=> PastLine245)
    /\ Len(stack) = 2 =>
          /\ stack[1].option = "Diverging Wave"
          /\ stack[1].pc = "line245"
          /\ Len(stack[2].args) = 4
          /\ \A a \in 1..3 : stack[2].args[a].t = "num"
          /\ IsParam(stack[2].args[4])
          /\ stack[2].option \in {"", "Origo"}
          /\ stack[2].pc \in {"dispatch", "geometry", "velocity", "positions",
                              "origo", "normalize", "store", "return"}
          /\ stack[2].pc \in {"normalize", "store", "return"}
                => Len(stack[2].delays) = 1
    /\ ~Finished => CanStep

\* C13: a diverging-wave call invokes txdelay3 once more, once, after all its
\* validations and the root search, with one target point, and that call is a
\* point focus; focus and plane-wave calls invoke nothing. So at most two
\* calls are nested, and a call that has not ended can always take a step and
\* every step brings it nearer to its end: every call returns or fails.
C13_CallStructure == [](CallStructure) /\ [][Progress' > Progress]_vars

\* a diverging-wave call returned after one root search and one nested focus call
C13_Witness ==
    /\ Returned
    /\ CallMode = "Diverging Wave"
    /\ hist.rootSearches = 1
    /\ hist.focusCalls = 1
    /\ hist.stores = 2

====
